---- MODULE Spec2Model ----
\* Store lifecycle and results repository of rngtest/store.py, modelled as
\* operating-system processes that act on one shared storage root.
\* A path is the sequence of its components below data_dir (<<>> is data_dir).
\* The clock counts half seconds; a file's content is a sequence of tokens.
EXTENDS Integers, Sequences, FiniteSets, TLC

VARIABLES fs, clock, proc

vars == <<fs, clock, proc>>

-----------------------------------------------------------------------------
\* Bounds of the model

\* last half-second tick the clock reaches
MaxClock == 9
\* deepest level, below a store directory, at which other tools place content
MaxDepth == 2
\* most insertions one caller's block makes into the yielded mapping
MaxBodyOps == 2
\* most sub-test entries of a MultiTestResult
MaxEntries == 3
\* most results in the collection one load_results call is given
MaxResults == 2

-----------------------------------------------------------------------------
\* Program constants

UNIQUE_STORENAME_ATTEMPTS == 3
\* clock ticks per second: strftime("%Y%m%dT%H%M%SZ") keeps whole seconds
TicksPerSecond == 2
\* sleep(1.5), in clock ticks
SleepTicks == 3

PROFILED_DATA_FNAME == "series.pickle"
RESULTS_FNAME == "results.pickle"

data_dir == <<>>

Procs == {"p1", "p2"}
MainProc == "p1"

None == "<None>"
\* names a caller passes to init_store / load_data
RawNames == {"x", "x!", "y"}
\* names a caller passes to drop ("" is the empty STORE argument)
DropNames == {"x", "y", ""}
\* stores a caller asks get_data for
GetNames == {"x", "y"}
\* stores a caller opens a results transaction on
TxnNames == {"x"}
\* stores other tools place content in
ContentStores == {"x"}
\* parsed input tables (rows of cells): one column, and two columns
DataFiles == {<< <<"0">>, <<"1">> >>, << <<"0", "1">> >>}
\* the tables of the sequence round trips: one column of integers, of
\* booleans or of floats, the two-column table, and the empty file
SeqFiles == DataFiles \cup {<< <<"1">>, <<"0">> >>, << <<"200">> >>,
                            << <<"True">>, <<"False">> >>, << <<"0.5">> >>, <<>>}
SeqNames == {"x!"}
\* TYPES_MAP (lines 39-47): bool, byte (8 bits, signed), long and double stand
\* for the boolean, the narrow and wide integer and the floating point types;
\* "str" is a dtypestr that is not a key
TYPES_MAP == {"bool", "byte", "long", "double"}
DtypeStrs == TYPES_MAP \cup {None, "str"}
BoolTokens == {"True", "False"}
IntTokens == {"0", "1", "200"}
FloatTokens == {"0.5"}
\* result identities (class names) and result objects
Identities == {"Monobit", "Runs"}
ResultObjs == {"r1", "r2"}
\* the ordered collections load_results is given: each result with the name of
\* its class
Collections == UNION {[1..n -> Identities \X ResultObjs] : n \in 0..MaxResults}
\* features of sub-tests, and TestResult values (p in tenths; heads and tails
\* play no part in the views)
Features == {"f1", "f2", "f3"}
TestResults == {[statistic |-> 1, p |-> 5], [statistic |-> 2, p |-> 2]}
Views == {"statistics", "pvalues", "min"}
\* names other tools give to the content they place inside a store
SubdirName == "sub"
OtherFileName == "dataframe.pickle"

\* timestamp.strftime("%Y%m%dT%H%M%SZ"): the second the instant falls in
Stamps == <<"20261104T000000Z", "20261104T000001Z", "20261104T000002Z",
            "20261104T000003Z", "20261104T000004Z", "20261104T000005Z">>
strftime(t) == Stamps[(t \div TicksPerSecond) + 1]

\* rngtest.slugify.slugify: lossy, characters that are not filesystem-safe go
slugify(name) == IF name = "x!" THEN "x" ELSE name

-----------------------------------------------------------------------------
\* pathlib / os on the modelled filesystem

Dir == [kind |-> "dir", data |-> <<>>]
File(bytes) == [kind |-> "file", data |-> bytes]

\* data_dir / name
PathJoin(path, name) == IF name = "" THEN path ELSE Append(path, name)
Parent(path) == SubSeq(path, 1, Len(path) - 1)

exists(f, path) == path \in DOMAIN f
is_dir(f, path) == path \in DOMAIN f /\ f[path].kind = "dir"
is_file(f, path) == path \in DOMAIN f /\ f[path].kind = "file"

\* path.glob("*"): the direct children of path (nothing when path is no directory)
glob(f, path) ==
    {c \in DOMAIN f : Len(c) = Len(path) + 1 /\ Parent(c) = path /\ is_dir(f, path)}

\* everything at or below path
Tree(f, path) ==
    {c \in DOMAIN f : Len(c) >= Len(path) /\ SubSeq(c, 1, Len(path)) = path}

Remove(f, path) == [c \in DOMAIN f \ {path} |-> f[c]]
Put(f, path, node) == [c \in DOMAIN f \cup {path} |-> IF c = path THEN node ELSE f[c]]

Ok(f) == [fs |-> f, exc |-> "none"]
Raise(f, e) == [fs |-> f, exc |-> e]

\* Path.mkdir(path), without parents
Mkdir(f, path) ==
    IF exists(f, path) THEN Raise(f, "FileExistsError")
    ELSE IF Len(path) > 0 /\ ~exists(f, Parent(path)) THEN Raise(f, "FileNotFoundError")
    ELSE IF Len(path) > 0 /\ ~is_dir(f, Parent(path)) THEN Raise(f, "NotADirectoryError")
    ELSE Ok(Put(f, path, Dir))

\* path.rmdir()
Rmdir(f, path) ==
    IF ~exists(f, path) THEN Raise(f, "FileNotFoundError")
    ELSE IF ~is_dir(f, path) THEN Raise(f, "NotADirectoryError")
    ELSE IF glob(f, path) # {} THEN Raise(f, "OSError")
    ELSE Ok(Remove(f, path))

\* open(path, "wb"): creates or truncates the file
OpenWb(f, path) ==
    IF is_dir(f, path) THEN Raise(f, "IsADirectoryError")
    ELSE IF ~exists(f, Parent(path)) THEN Raise(f, "FileNotFoundError")
    ELSE IF ~is_dir(f, Parent(path)) THEN Raise(f, "NotADirectoryError")
    ELSE Ok(Put(f, path, File(<<>>)))

\* open(path, "rb")
OpenRb(f, path) ==
    IF ~exists(f, path) THEN Raise(f, "FileNotFoundError")
    ELSE IF is_dir(f, path) THEN Raise(f, "IsADirectoryError")
    ELSE Ok(f)

\* rm_tree(path): the children are visited in the order glob yields them; a
\* child's exception ends the walk with what was removed so far removed
RECURSIVE rm_tree(_, _)
RECURSIVE rm_children(_, _)
rm_children(f, todo) ==
    IF todo = {} THEN Ok(f)
    ELSE LET child == CHOOSE c \in todo : TRUE
             r == IF is_file(f, child) THEN Ok(Remove(f, child)) ELSE rm_tree(f, child)
         IN IF r.exc # "none" THEN r ELSE rm_children(r.fs, todo \ {child})

\* rm_tree without the recursion into subdirectories
rm_tree_flat(f, path) ==
    LET files == {c \in glob(f, path) : is_file(f, c)}
    IN Rmdir([c \in DOMAIN f \ files |-> f[c]], path)

rm_tree(f, path) ==
    LET r == rm_children(f, glob(f, path))
    IN IF r.exc # "none" THEN r ELSE Rmdir(r.fs, path)

NoFs == [c \in {} |-> Dir]

\* scandir(data_dir), keeping the entries that are directories
StoreDirs(f) == {c[1] : c \in {d \in DOMAIN f : Len(d) = 1 /\ f[d].kind = "dir"}}

-----------------------------------------------------------------------------
\* Processes

\* op, pc: the call in progress and where it stands; name .. series: its
\* arguments and local variables; outcome, ret: how it ended and what it
\* returned. pre (the filesystem when the call began), log (what the caller's
\* block assigned) and tried (candidate names and whether each collided)
\* record the call's history. mtr is a MultiTestResult the process holds,
\* cache the lru_cache of its three properties (<<>> a miss, <<v>> the value
\* kept for the instance), got the last property read since the mapping was
\* last assigned to, and phase whether a read, then an assignment, came before.
NoAccess == [view |-> "none", value |-> <<>>, exc |-> "none", after_mutation |-> FALSE]
Idle == [op |-> "idle", pc |-> "idle", name |-> None, store_name |-> None,
         overwrite |-> FALSE, write |-> FALSE, attempts |-> 0, wake |-> 0,
         series |-> <<>>, results |-> <<>>, yielded |-> <<>>, ret |-> <<>>,
         outcome |-> "none", pre |-> NoFs, log |-> <<>>, tried |-> <<>>,
         args |-> <<>>, last |-> FALSE, overlap |-> {}, df |-> <<>>, dtypestr |-> None, mtr |-> <<>>, cache |-> [v \in Views |-> <<>>], got |-> NoAccess,
         phase |-> "new"]

Set(p, r) == proc' = [proc EXCEPT ![p] = r]
Done(p, outcome) == [proc[p] EXCEPT !.pc = "done", !.outcome = outcome]

\* lines 27-32: the storage root is created when the module is imported
Import(p) ==
    /\ proc[p].pc = "idle"
    /\ ~exists(fs, data_dir)
    /\ fs' = Mkdir(fs, data_dir).fs
    /\ UNCHANGED <<clock, proc>>

Tick ==
    /\ clock < MaxClock
    /\ clock' = clock + 1
    /\ UNCHANGED <<fs, proc>>

\* the process is done with its call
Finish(p) ==
    /\ proc[p].pc = "done"
    /\ Set(p, Idle)
    /\ UNCHANGED <<fs, clock>>

-----------------------------------------------------------------------------
\* ls_stores (lines 194-207)

RECURSIVE SetToSeq(_)
SetToSeq(S) ==
    IF S = {} THEN <<>>
    ELSE LET x == CHOOSE y \in S : TRUE IN <<x>> \o SetToSeq(S \ {x})

Range(s) == {s[i] : i \in 1..Len(s)}

\* what one full run of the generator yields, and how it ends: the first loop
\* (lines 196-198) is outside the try, the second (lines 199-207) inside it
ls_stores(f) ==
    IF ~exists(f, data_dir) THEN [yields |-> <<>>, exc |-> "FileNotFoundError"]
    ELSE [yields |-> SetToSeq(StoreDirs(f)) \o SetToSeq(StoreDirs(f)), exc |-> "none"]

\* list(ls_stores()), as cli ls / rm_all consume it
list_stores(p) ==
    /\ proc[p].pc = "idle"
    /\ LET r == ls_stores(fs)
       IN Set(p, [Done(p, r.exc) EXCEPT !.op = "ls_stores", !.ret = r.yields, !.pre = fs])
    /\ UNCHANGED <<fs, clock>>

-----------------------------------------------------------------------------
\* init_store (lines 88-123)

\* lines 93-99: a given name is slugified, no name starts the synthesis loop
CallInitStore(p, name, overwrite) ==
    /\ proc[p].pc = "idle"
    /\ Set(p, [proc[p] EXCEPT !.op = "init_store", !.name = name,
                              !.overwrite = overwrite, !.pre = fs,
                              !.store_name = IF name = None THEN None ELSE slugify(name),
                              !.pc = IF name = None THEN "attempt" ELSE "mkdir"])
    /\ UNCHANGED <<fs, clock>>

\* the loop without its else branch: the last candidate is used
AttemptNoElse(p) ==
    /\ proc[p].pc = "attempt"
    /\ IF proc[p].attempts >= UNIQUE_STORENAME_ATTEMPTS
       THEN Set(p, [proc[p] EXCEPT !.pc = "mkdir"])
       ELSE LET store_name == strftime(clock)
                ls == ls_stores(fs)
                q == [proc[p] EXCEPT !.store_name = store_name, !.attempts = @ + 1,
                                     !.tried = Append(@, <<store_name,
                                                  store_name \in Range(ls.yields)>>)]
            IN IF store_name \in Range(ls.yields)
               THEN Set(p, [q EXCEPT !.pc = "sleep", !.wake = clock + SleepTicks])
               ELSE IF ls.exc # "none"
               THEN Set(p, [q EXCEPT !.pc = "done", !.outcome = ls.exc])
               ELSE Set(p, [q EXCEPT !.pc = "mkdir"])
    /\ UNCHANGED <<fs, clock>>

\* lines 100-109: one turn of the for loop, or its else branch when it is exhausted
Attempt(p) ==
    /\ proc[p].pc = "attempt"
    /\ IF proc[p].attempts >= UNIQUE_STORENAME_ATTEMPTS
       THEN Set(p, Done(p, "NameConflictError"))
       ELSE LET store_name == strftime(clock)
                ls == ls_stores(fs)
                q == [proc[p] EXCEPT !.store_name = store_name, !.attempts = @ + 1,
                                     !.tried = Append(@, <<store_name,
                                                  store_name \in Range(ls.yields)>>)]
            IN IF store_name \in Range(ls.yields)
               THEN Set(p, [q EXCEPT !.pc = "sleep", !.wake = clock + SleepTicks])
               ELSE IF ls.exc # "none"
               THEN Set(p, [q EXCEPT !.pc = "done", !.outcome = ls.exc])
               ELSE Set(p, [q EXCEPT !.pc = "mkdir"])
    /\ UNCHANGED <<fs, clock>>

\* line 107: sleep(1.5) returns once that much time has passed
Sleep(p) ==
    /\ proc[p].pc = "sleep"
    /\ clock >= proc[p].wake
    /\ Set(p, [proc[p] EXCEPT !.pc = "attempt"])
    /\ UNCHANGED <<fs, clock>>

\* line 123, and line 140 when load_data made the call
Returned(p) ==
    IF proc[p].op = "load_data"
    THEN [proc[p] EXCEPT !.pc = "dump"]
    ELSE [Done(p, "ok") EXCEPT !.ret = <<proc[p].store_name>>]

\* mkdir that overwrites whatever the flag says
MkdirStoreAlwaysOverwrite(p) ==
    /\ proc[p].pc = "mkdir"
    /\ LET r == Mkdir(fs, PathJoin(data_dir, proc[p].store_name))
       IN /\ fs' = r.fs
          /\ IF r.exc = "none" THEN Set(p, Returned(p))
             ELSE IF r.exc = "FileExistsError"
             THEN Set(p, [proc[p] EXCEPT !.pc = "rm_tree"])
             ELSE Set(p, Done(p, r.exc))
    /\ UNCHANGED clock

\* lines 113-121
MkdirStore(p) ==
    /\ proc[p].pc = "mkdir"
    /\ LET r == Mkdir(fs, PathJoin(data_dir, proc[p].store_name))
       IN /\ fs' = r.fs
          /\ IF r.exc = "none" THEN Set(p, Returned(p))
             ELSE IF r.exc = "FileExistsError"
             THEN IF proc[p].overwrite
                  THEN Set(p, [proc[p] EXCEPT !.pc = "rm_tree"])
                  ELSE Set(p, Done(p, "StoreExistsError"))
             ELSE Set(p, Done(p, r.exc))
    /\ UNCHANGED clock

\* overwrite that keeps the directory it found
RmTreeStoreKeep(p) ==
    /\ proc[p].pc = "rm_tree"
    /\ fs' = fs
    /\ Set(p, Returned(p))
    /\ UNCHANGED clock

\* line 118
RmTreeStore(p) ==
    /\ proc[p].pc = "rm_tree"
    /\ LET r == rm_tree(fs, PathJoin(data_dir, proc[p].store_name))
       IN /\ fs' = r.fs
          /\ IF r.exc = "none"
             THEN Set(p, [proc[p] EXCEPT !.pc = "remkdir"])
             ELSE Set(p, Done(p, r.exc))
    /\ UNCHANGED clock

\* line 119
RemkdirStore(p) ==
    /\ proc[p].pc = "remkdir"
    /\ LET r == Mkdir(fs, PathJoin(data_dir, proc[p].store_name))
       IN /\ fs' = r.fs
          /\ IF r.exc = "none" THEN Set(p, Returned(p))
             ELSE Set(p, Done(p, r.exc))
    /\ UNCHANGED clock

-----------------------------------------------------------------------------
\* drop (lines 187-191)

\* drop that removes the tree of the storage root
drop_all(p, store_name) ==
    /\ proc[p].pc = "idle"
    /\ LET r == rm_tree(fs, data_dir)
       IN /\ fs' = r.fs
          /\ Set(p, [Done(p, IF r.exc = "none" THEN "ok" ELSE r.exc)
                        EXCEPT !.op = "drop", !.store_name = store_name, !.pre = fs])
    /\ UNCHANGED clock

drop(p, store_name) ==
    /\ proc[p].pc = "idle"
    /\ LET r == rm_tree(fs, PathJoin(data_dir, store_name))
       IN /\ fs' = r.fs
          /\ Set(p, [Done(p, IF r.exc = "none" THEN "ok" ELSE r.exc)
                        EXCEPT !.op = "drop", !.store_name = store_name, !.pre = fs])
    /\ UNCHANGED clock

-----------------------------------------------------------------------------
\* Content other tools leave inside a store directory between two calls, which
\* rm_tree (lines 179-183) has to walk: a subdirectory or a file below an
\* existing directory

ContentParents(f) ==
    {d \in DOMAIN f : /\ f[d].kind = "dir"
                      /\ Len(d) >= 1 /\ Len(d) <= MaxDepth
                      /\ d[1] \in ContentStores}

PlaceSubdir(d) ==
    /\ \A p \in Procs : proc[p].pc = "idle"
    /\ d \in ContentParents(fs)
    /\ ~exists(fs, Append(d, SubdirName))
    /\ fs' = Mkdir(fs, Append(d, SubdirName)).fs
    /\ UNCHANGED <<clock, proc>>

PlaceFile(d) ==
    /\ \A p \in Procs : proc[p].pc = "idle"
    /\ d \in ContentParents(fs)
    /\ ~exists(fs, Append(d, OtherFileName))
    /\ fs' = OpenWb(fs, Append(d, OtherFileName)).fs
    /\ UNCHANGED <<clock, proc>>

-----------------------------------------------------------------------------
\* pickle

\* the dict as pickle.dump writes it: its items in insertion order
RECURSIVE Flatten(_)
Flatten(items) ==
    IF items = <<>> THEN <<>> ELSE <<items[1][1], items[1][2]>> \o Flatten(Tail(items))

pickle_dump_dict(d) == <<"DICT">> \o Flatten(d) \o <<".">>

pickle_dump_series(name, values) == <<"SERIES", name>> \o values \o <<".">>

\* a file handle opened with "wb" writes from offset 0 and does not cut what
\* lies beyond what it writes
WriteAt(old, bytes) == bytes \o SubSeq(old, Len(bytes) + 1, Len(old))

\* the position of the first STOP opcode, 0 without one
StopAt(bytes) ==
    IF \E i \in 1..Len(bytes) : bytes[i] = "."
    THEN CHOOSE i \in 1..Len(bytes) : bytes[i] = "." /\ \A j \in 1..(i - 1) : bytes[j] # "."
    ELSE 0

\* pickle.load: reads up to the first STOP and leaves the rest unread. Input
\* that ends where an opcode is expected (an empty file is the least such)
\* ends in EOFError; input that ends inside the argument of an opcode or inside
\* a frame ("<cut>") ends in UnpicklingError
pickle_load(bytes) ==
    IF StopAt(bytes) = 0
    THEN [obj |-> <<>>,
          exc |-> IF bytes # <<>> /\ bytes[Len(bytes)] = "<cut>"
                  THEN "UnpicklingError" ELSE "EOFError"]
    ELSE IF bytes[1] = "DICT"
    THEN [obj |-> [i \in 1..((StopAt(bytes) - 2) \div 2) |-> <<bytes[2 * i], bytes[2 * i + 1]>>],
          exc |-> "none"]
    ELSE [obj |-> SubSeq(bytes, 2, StopAt(bytes) - 1), exc |-> "none"]

\* dict: the items in insertion order
Keys(d) == {d[i][1] : i \in 1..Len(d)}
Lookup(d, k) == LET i == CHOOSE j \in 1..Len(d) : d[j][1] = k IN d[i][2]
\* d[k] = v
SetItem(d, k, v) ==
    IF k \in Keys(d)
    THEN [i \in 1..Len(d) |-> IF d[i][1] = k THEN <<k, v>> ELSE d[i]]
    ELSE Append(d, <<k, v>>)

-----------------------------------------------------------------------------
\* load_data (lines 132-144)

\* df.astype(TYPES_MAP[dtypestr]) on one cell as read_csv parsed it (line 66);
\* without a dtypestr infer_objects keeps the parsed value (line 68)
astype(dtypestr, v) ==
    CASE dtypestr = None -> v
      [] dtypestr = "bool" ->
            IF v \in BoolTokens THEN v ELSE IF v = "0" THEN "False" ELSE "True"
      [] dtypestr = "byte" ->
            IF v \in {"0", "1"} THEN v
            ELSE IF v = "200" THEN "-56"
            ELSE IF v = "True" THEN "1" ELSE "0"
      [] dtypestr = "long" ->
            IF v \in IntTokens THEN v ELSE IF v = "True" THEN "1" ELSE "0"
      [] dtypestr = "double" ->
            CASE v = "0" -> "0.0" [] v = "1" -> "1.0" [] v = "200" -> "200.0"
              [] v = "True" -> "1.0" [] v = "False" -> "0.0" [] OTHER -> v

\* the values of the element type: those astype has nothing to convert
InType(dtypestr, v) ==
    CASE dtypestr = None -> TRUE
      [] dtypestr = "bool" -> v \in BoolTokens
      [] dtypestr = "byte" -> v \in {"0", "1"}
      [] dtypestr = "long" -> v \in IntTokens
      [] dtypestr = "double" -> v \in FloatTokens
      [] OTHER -> FALSE

\* lines 56-70: the outcome of parse_data, and the first column as line 138
\* takes it
parse_data(df, dtypestr) ==
    IF df = <<>> THEN [exc |-> "EmptyDataError", ncols |-> 0, col |-> <<>>]
    ELSE IF dtypestr \notin TYPES_MAP \cup {None}
    THEN [exc |-> "TypeNotRecognizedError", ncols |-> 0, col |-> <<>>]
    ELSE [exc |-> "none", ncols |-> Len(df[1]),
          col |-> [i \in 1..Len(df) |-> astype(dtypestr, df[i][1])]]

\* load_data without the check of lines 136-137
CallLoadDataNoCheck(p, df, name, dtypestr, overwrite) ==
    /\ proc[p].pc = "idle"
    /\ LET q == [proc[p] EXCEPT !.op = "load_data", !.name = name, !.df = df,
                                !.dtypestr = dtypestr,
                                !.overwrite = overwrite, !.pre = fs]
           r == parse_data(df, dtypestr)
       IN IF r.exc # "none"
          THEN Set(p, [q EXCEPT !.pc = "done", !.outcome = r.exc])
          ELSE Set(p, [q EXCEPT !.series = r.col,
                                !.store_name = IF name = None THEN None ELSE slugify(name),
                                !.pc = IF name = None THEN "attempt" ELSE "mkdir"])
    /\ UNCHANGED <<fs, clock>>

\* lines 134-140: the table is parsed and checked before init_store is called
CallLoadData(p, df, name, dtypestr, overwrite) ==
    /\ proc[p].pc = "idle"
    /\ LET q == [proc[p] EXCEPT !.op = "load_data", !.name = name, !.df = df,
                                !.dtypestr = dtypestr,
                                !.overwrite = overwrite, !.pre = fs]
           r == parse_data(df, dtypestr)
       IN IF r.exc # "none"
          THEN Set(p, [q EXCEPT !.pc = "done", !.outcome = r.exc])
          ELSE IF r.ncols > 1
          THEN Set(p, [q EXCEPT !.pc = "done", !.outcome = "MultipleColumnsError"])
          ELSE Set(p, [q EXCEPT !.series = r.col,
                                !.store_name = IF name = None THEN None ELSE slugify(name),
                                !.pc = IF name = None THEN "attempt" ELSE "mkdir"])
    /\ UNCHANGED <<fs, clock>>

\* the series dumped under the name the caller passed, not renamed
DumpDataRawName(p) ==
    /\ proc[p].pc = "dump"
    /\ proc[p].op = "load_data"
    /\ LET data_path == Append(PathJoin(data_dir, proc[p].store_name), PROFILED_DATA_FNAME)
           r == OpenWb(fs, data_path)
       IN IF r.exc # "none"
          THEN fs' = fs /\ Set(p, Done(p, r.exc))
          ELSE /\ fs' = Put(fs, data_path,
                            File(pickle_dump_series(proc[p].name, proc[p].series)))
               /\ Set(p, Done(p, "ok"))
    /\ UNCHANGED clock

\* lines 142-144
DumpData(p) ==
    /\ proc[p].pc = "dump"
    /\ proc[p].op = "load_data"
    /\ LET data_path == Append(PathJoin(data_dir, proc[p].store_name), PROFILED_DATA_FNAME)
           r == OpenWb(fs, data_path)
       IN IF r.exc # "none"
          THEN fs' = fs /\ Set(p, Done(p, r.exc))
          ELSE /\ fs' = Put(fs, data_path,
                            File(pickle_dump_series(proc[p].store_name, proc[p].series)))
               /\ Set(p, Done(p, "ok"))
    /\ UNCHANGED clock

-----------------------------------------------------------------------------
\* open_results (lines 223-243)

results_path(store_name) == Append(PathJoin(data_dir, store_name), RESULTS_FNAME)

\* lines 228-235: what the transaction loads from the filesystem f
LoadedResults(f, store_name) ==
    IF ~exists(f, results_path(store_name)) THEN [obj |-> <<>>, exc |-> "none"]
    ELSE IF is_dir(f, results_path(store_name))
    THEN [obj |-> <<>>, exc |-> "IsADirectoryError"]
    ELSE LET r == pickle_load(f[results_path(store_name)].data)
         IN IF r.exc = "EOFError" THEN [obj |-> <<>>, exc |-> "none"] ELSE r

CallOpenResults(p, store_name, write) ==
    /\ proc[p].pc = "idle"
    /\ Set(p, [proc[p] EXCEPT !.op = "open_results", !.store_name = store_name,
                              !.write = write, !.pre = fs, !.pc = "load"])
    /\ UNCHANGED <<fs, clock>>

\* lines 225-235
LoadResults(p) ==
    /\ proc[p].pc = "load"
    /\ LET r == LoadedResults(fs, proc[p].store_name)
       IN IF r.exc # "none" THEN Set(p, Done(p, r.exc))
          ELSE Set(p, [proc[p] EXCEPT !.results = r.obj, !.pc = "open"])
    /\ UNCHANGED <<fs, clock>>

\* the read-only branch opening the file as the write branch does
OpenResultsAlwaysWb(p) ==
    /\ proc[p].pc = "open"
    /\ LET r == OpenWb(fs, results_path(proc[p].store_name))
       IN /\ fs' = r.fs
          /\ IF r.exc # "none" THEN Set(p, Done(p, r.exc))
             ELSE Set(p, [proc[p] EXCEPT !.yielded = proc[p].results, !.pc = "body"])
    /\ UNCHANGED clock

\* line 238 or line 242, up to the yield
OpenResults(p) ==
    /\ proc[p].pc = "open"
    /\ LET r == IF proc[p].write THEN OpenWb(fs, results_path(proc[p].store_name))
                ELSE OpenRb(fs, results_path(proc[p].store_name))
       IN /\ fs' = r.fs
          /\ IF r.exc # "none" THEN Set(p, Done(p, r.exc))
             ELSE Set(p, [proc[p] EXCEPT !.yielded = proc[p].results, !.pc = "body"])
    /\ UNCHANGED clock

\* the caller's block assigns an entry of the yielded mapping
BodyPut(p, k, v) ==
    /\ proc[p].pc = "body"
    /\ proc[p].op = "open_results"
    /\ Len(proc[p].log) < MaxBodyOps
    /\ Set(p, [proc[p] EXCEPT !.results = SetItem(@, k, v), !.log = Append(@, <<k, v>>)])
    /\ UNCHANGED <<fs, clock>>

\* the caller's block raises: the exception leaves the with statement of line
\* 238 or 242, which closes the file
BodyRaise(p) ==
    /\ proc[p].pc = "body"
    /\ proc[p].op = "open_results"
    /\ Set(p, Done(p, "BodyError"))
    /\ UNCHANGED <<fs, clock>>

\* the caller's block ends normally
BodyExit(p) ==
    /\ proc[p].pc = "body"
    /\ proc[p].op = "open_results"
    /\ IF proc[p].write THEN Set(p, [proc[p] EXCEPT !.pc = "dump"]) ELSE Set(p, Done(p, "ok"))
    /\ UNCHANGED <<fs, clock>>

\* the other processes that have loaded the mapping of the same store in a
\* write transaction and not dumped it yet
Uncommitted(p) ==
    {q \in Procs \ {p} : /\ proc[q].write
                         /\ proc[q].store_name = proc[p].store_name
                         /\ proc[q].pc \in {"open", "body", "dump"}}

\* the transaction of p ends with its dump: p becomes the last to have
\* committed to its store, and keeps who was still to commit
Commit(p) ==
    proc' = [q \in Procs |->
                IF q = p
                THEN [Done(p, "ok") EXCEPT !.last = TRUE, !.overlap = Uncommitted(p)]
                ELSE IF proc[q].store_name = proc[p].store_name
                THEN [proc[q] EXCEPT !.last = FALSE]
                ELSE proc[q]]

\* dump of the mapping as it was loaded instead of as the block left it
DumpResultsLoaded(p) ==
    /\ proc[p].pc = "dump"
    /\ proc[p].op \in {"open_results", "load_result", "load_results"}
    /\ fs' = IF is_file(fs, results_path(proc[p].store_name))
             THEN Put(fs, results_path(proc[p].store_name),
                      File(WriteAt(fs[results_path(proc[p].store_name)].data,
                                   pickle_dump_dict(proc[p].yielded))))
             ELSE fs
    /\ Commit(p)
    /\ UNCHANGED clock

\* dump through a handle that appends to what the file holds
DumpResultsAppend(p) ==
    /\ proc[p].pc = "dump"
    /\ proc[p].op \in {"open_results", "load_result", "load_results"}
    /\ fs' = IF is_file(fs, results_path(proc[p].store_name))
             THEN Put(fs, results_path(proc[p].store_name),
                      File(fs[results_path(proc[p].store_name)].data
                           \o pickle_dump_dict(proc[p].results)))
             ELSE fs
    /\ Commit(p)
    /\ UNCHANGED clock

\* line 240, and the close that flushes it: the bytes go to offset 0 of the
\* file the handle was opened on; a file unlinked meanwhile is written to
\* without coming back
DumpResults(p) ==
    /\ proc[p].pc = "dump"
    /\ proc[p].op \in {"open_results", "load_result", "load_results"}
    /\ fs' = IF is_file(fs, results_path(proc[p].store_name))
             THEN Put(fs, results_path(proc[p].store_name),
                      File(WriteAt(fs[results_path(proc[p].store_name)].data,
                                   pickle_dump_dict(proc[p].results))))
             ELSE fs
    /\ Commit(p)
    /\ UNCHANGED clock

\* line 240 interrupted: the process is killed when only the first n items of
\* the pickle have reached the file, the last of them in part if cut
KilledInDump(p) ==
    /\ proc[p].pc = "dump"
    /\ proc[p].op \in {"open_results", "load_result", "load_results"}
    /\ \E n \in 0..(Len(pickle_dump_dict(proc[p].results)) - 1), cut \in BOOLEAN :
          fs' = IF is_file(fs, results_path(proc[p].store_name))
                THEN Put(fs, results_path(proc[p].store_name),
                         File(WriteAt(fs[results_path(proc[p].store_name)].data,
                                      SubSeq(pickle_dump_dict(proc[p].results), 1, n)
                                      \o (IF cut THEN <<"<cut>">> ELSE <<>>))))
                ELSE fs
    /\ Set(p, Done(p, "Killed"))
    /\ UNCHANGED clock

-----------------------------------------------------------------------------
\* load_result (lines 210-213)

\* line 211: the write transaction is entered; args keeps the result and the
\* name of its class
CallLoadResult(p, store_name, class_name, result) ==
    /\ proc[p].pc = "idle"
    /\ Set(p, [proc[p] EXCEPT !.op = "load_result", !.store_name = store_name,
                              !.write = TRUE, !.pre = fs, !.pc = "load",
                              !.args = <<class_name, result>>])
    /\ UNCHANGED <<fs, clock>>

\* an entry already filed under the class name is left as it is
LoadResultBodyKeep(p) ==
    /\ proc[p].pc = "body"
    /\ proc[p].op = "load_result"
    /\ Set(p, [proc[p] EXCEPT
                !.results = IF proc[p].args[1] \in Keys(@) THEN @
                            ELSE SetItem(@, proc[p].args[1], proc[p].args[2]),
                !.log = Append(@, proc[p].args),
                !.pc = "dump"])
    /\ UNCHANGED <<fs, clock>>

\* lines 212-213, and the normal exit of the with block
LoadResultBody(p) ==
    /\ proc[p].pc = "body"
    /\ proc[p].op = "load_result"
    /\ Set(p, [proc[p] EXCEPT !.results = SetItem(@, proc[p].args[1], proc[p].args[2]),
                              !.log = Append(@, proc[p].args),
                              !.pc = "dump"])
    /\ UNCHANGED <<fs, clock>>

-----------------------------------------------------------------------------
\* load_results (lines 216-220)

\* line 217: the write transaction is entered; args keeps the results the
\* loop has still to visit
CallLoadResults(p, store_name, results) ==
    /\ proc[p].pc = "idle"
    /\ Set(p, [proc[p] EXCEPT !.op = "load_results", !.store_name = store_name,
                              !.write = TRUE, !.pre = fs, !.pc = "load",
                              !.args = results])
    /\ UNCHANGED <<fs, clock>>

\* the loop visiting the collection from its end
LoadResultsBodyReversed(p) ==
    /\ proc[p].pc = "body"
    /\ proc[p].op = "load_results"
    /\ IF proc[p].args = <<>>
       THEN Set(p, [proc[p] EXCEPT !.pc = "dump"])
       ELSE Set(p, [proc[p] EXCEPT
                    !.results = SetItem(@, proc[p].args[Len(proc[p].args)][1],
                                        proc[p].args[Len(proc[p].args)][2]),
                    !.log = <<proc[p].args[Len(proc[p].args)]>> \o @,
                    !.args = SubSeq(@, 1, Len(@) - 1)])
    /\ UNCHANGED <<fs, clock>>

\* lines 218-220: one iteration of the loop, or its end and the normal exit
\* of the with block
LoadResultsBody(p) ==
    /\ proc[p].pc = "body"
    /\ proc[p].op = "load_results"
    /\ IF proc[p].args = <<>>
       THEN Set(p, [proc[p] EXCEPT !.pc = "dump"])
       ELSE Set(p, [proc[p] EXCEPT
                    !.results = SetItem(@, Head(proc[p].args)[1], Head(proc[p].args)[2]),
                    !.log = Append(@, Head(proc[p].args)),
                    !.args = Tail(@)])
    /\ UNCHANGED <<fs, clock>>

-----------------------------------------------------------------------------
\* get_data (lines 159-174)

\* StoreNotFoundError for a missing store and DataNotFoundError for a missing
\* artifact folded into one error
GetDataOneError(f, store_name) ==
    LET single_profile_path == Append(PathJoin(data_dir, store_name), PROFILED_DATA_FNAME)
    IN IF ~exists(f, PathJoin(data_dir, store_name)) \/ ~exists(f, single_profile_path)
       THEN [ret |-> <<>>, exc |-> "StoreNotFoundError"]
       ELSE [ret |-> pickle_load(f[single_profile_path].data).obj, exc |-> "ok"]

\* what get_data returns (the series: its label, then its values) or raises
GetData(f, store_name) ==
    LET single_profile_path == Append(PathJoin(data_dir, store_name), PROFILED_DATA_FNAME)
        r == OpenRb(f, single_profile_path)
    IN IF ~exists(f, PathJoin(data_dir, store_name))
       THEN [ret |-> <<>>, exc |-> "StoreNotFoundError"]
       ELSE IF r.exc = "FileNotFoundError" THEN [ret |-> <<>>, exc |-> "DataNotFoundError"]
       ELSE IF r.exc # "none" THEN [ret |-> <<>>, exc |-> r.exc]
       ELSE LET l == pickle_load(f[single_profile_path].data)
            IN [ret |-> l.obj, exc |-> IF l.exc = "none" THEN "ok" ELSE l.exc]

get_data(p, store_name) ==
    /\ proc[p].pc = "idle"
    /\ LET r == GetData(fs, store_name)
       IN Set(p, [Done(p, r.exc) EXCEPT !.op = "get_data", !.store_name = store_name,
                                        !.ret = r.ret, !.pre = fs])
    /\ UNCHANGED <<fs, clock>>

-----------------------------------------------------------------------------
\* MultiTestResult (result.py lines 96-137)

\* lines 119-120
statistics(d) == [i \in 1..Len(d) |-> d[i][2].statistic]

\* lines 124-125
pvalues(d) == [i \in 1..Len(d) |-> d[i][2].p]

\* lines 132-135: the rest of the scan, from item i on, with the minimum so far
RECURSIVE MinScan(_, _, _)
MinScan(d, i, best) ==
    IF i > Len(d) THEN best
    ELSE MinScan(d, i + 1, IF d[i][2].p < best[2].p THEN d[i] ELSE best)

\* lines 129-137, for a non-empty mapping
min(d) == MinScan(d, 2, d[1])

Compute(view, d) ==
    CASE view = "statistics" -> statistics(d)
      [] view = "pvalues" -> pvalues(d)
      [] view = "min" -> min(d)

\* self[feature] = result: MultiTestResult is a dict, nothing else happens
SetSubResult(p, feature, result) ==
    /\ proc[p].pc = "idle"
    /\ feature \in Keys(proc[p].mtr) \/ Len(proc[p].mtr) < MaxEntries
    /\ Set(p, [proc[p] EXCEPT !.mtr = SetItem(@, feature, result),
                              !.got = NoAccess,
                              !.phase = IF @ = "new" THEN "new" ELSE "mutated"])
    /\ UNCHANGED <<fs, clock>>

\* reading a property (lines 117-129): lru_cache looks the instance up (its
\* hash is 0, line 115, and the key kept is the instance itself) and calls the
\* function on a miss only; next(items) on an empty mapping raises, which is
\* not cached
Access(p, view) ==
    /\ proc[p].pc = "idle"
    /\ LET c == proc[p].cache[view]
           q == [proc[p] EXCEPT !.phase = IF @ = "new" THEN "accessed" ELSE @]
           after == proc[p].phase = "mutated"
       IN IF c # <<>>
          THEN Set(p, [q EXCEPT !.got = [view |-> view, value |-> c[1], exc |-> "none",
                                         after_mutation |-> after]])
          ELSE IF view = "min" /\ proc[p].mtr = <<>>
          THEN Set(p, [q EXCEPT !.got = [view |-> view, value |-> <<>>,
                                         exc |-> "StopIteration",
                                         after_mutation |-> after]])
          ELSE Set(p, [q EXCEPT !.cache[view] = <<Compute(view, proc[p].mtr)>>,
                                !.got = [view |-> view,
                                         value |-> Compute(view, proc[p].mtr),
                                         exc |-> "none", after_mutation |-> after]])
    /\ UNCHANGED <<fs, clock>>

-----------------------------------------------------------------------------

Init ==
    /\ fs = (data_dir :> Dir)
    /\ clock = 0
    /\ proc = [p \in Procs |-> Idle]

Paths == UNION {[1..n -> ContentStores \cup {SubdirName}] : n \in 1..MaxDepth}

\* one process: calls run to completion one after the other
Next ==
    \/ Import(MainProc)
    \/ Finish(MainProc)
    \/ list_stores(MainProc)
    \/ \E name \in RawNames, overwrite \in BOOLEAN :
          CallInitStore(MainProc, name, overwrite)
    \/ \E df \in DataFiles, name \in RawNames, overwrite \in BOOLEAN :
          CallLoadData(MainProc, df, name, None, overwrite)
    \/ MkdirStore(MainProc)
    \/ RmTreeStore(MainProc)
    \/ RemkdirStore(MainProc)
    \/ DumpData(MainProc)
    \/ \E store_name \in DropNames : drop(MainProc, store_name)
    \/ \E store_name \in GetNames : get_data(MainProc, store_name)
    \/ \E store_name \in TxnNames, write \in BOOLEAN :
          CallOpenResults(MainProc, store_name, write)
    \/ LoadResults(MainProc)
    \/ OpenResults(MainProc)
    \/ \E k \in Identities, v \in ResultObjs : BodyPut(MainProc, k, v)
    \/ BodyRaise(MainProc)
    \/ BodyExit(MainProc)
    \/ DumpResults(MainProc)
    \/ \E store_name \in TxnNames, class_name \in Identities, result \in ResultObjs :
          CallLoadResult(MainProc, store_name, class_name, result)
    \/ LoadResultBody(MainProc)
    \/ \E d \in Paths : PlaceSubdir(d)
    \/ \E d \in Paths : PlaceFile(d)

Spec == Init /\ [][Next]_vars

\* several processes that create stores without a name, while time passes
NextNames ==
    \/ Tick
    \/ \E p \in Procs :
          \/ \E overwrite \in BOOLEAN : CallInitStore(p, None, overwrite)
          \/ Attempt(p)
          \/ Sleep(p)
          \/ MkdirStore(p)
          \/ RmTreeStore(p)
          \/ RemkdirStore(p)
          \/ Finish(p)

SpecNames == Init /\ [][NextNames]_vars

\* one process that puts typed sequences into one store and gets them back
NextSeq ==
    \/ Finish(MainProc)
    \/ \E df \in SeqFiles, name \in SeqNames, dtypestr \in DtypeStrs, overwrite \in BOOLEAN :
          CallLoadData(MainProc, df, name, dtypestr, overwrite)
    \/ MkdirStore(MainProc)
    \/ RmTreeStore(MainProc)
    \/ RemkdirStore(MainProc)
    \/ DumpData(MainProc)
    \/ \E store_name \in GetNames : get_data(MainProc, store_name)

SpecSeq == Init /\ [][NextSeq]_vars

\* what each process files in its write transactions: its own object under
\* its own identity
WriterKeys == [p \in Procs |-> IF p = MainProc THEN {"Monobit"} ELSE {"Runs"}]
WriterObj == [p \in Procs |-> IF p = MainProc THEN "r1" ELSE "r2"]

\* the store each process works on, and the collections it files
StoreOf == [p \in Procs |-> IF p = MainProc THEN "x" ELSE "y"]
StoreNames == {StoreOf[p] : p \in Procs}
OwnCollections(p) ==
    {c \in Collections : \A i \in 1..Len(c) : c[i][1] \in WriterKeys[p] /\ c[i][2] = WriterObj[p]}

\* several processes, each on a store of its own: the first runs every
\* operation, the others create their store, put a sequence, file a result
\* and drop the store
NextStores ==
    \/ \E overwrite \in BOOLEAN : CallInitStore(MainProc, StoreOf[MainProc], overwrite)
    \/ \E overwrite \in BOOLEAN :
          CallLoadData(MainProc, << <<"0">>, <<"1">> >>, StoreOf[MainProc], None, overwrite)
    \/ get_data(MainProc, StoreOf[MainProc])
    \/ \E write \in BOOLEAN : CallOpenResults(MainProc, StoreOf[MainProc], write)
    \/ \E results \in OwnCollections(MainProc) :
          CallLoadResults(MainProc, StoreOf[MainProc], results)
    \/ \E p \in Procs \ {MainProc} :
          \/ CallInitStore(p, StoreOf[p], FALSE)
          \/ CallLoadData(p, << <<"1">>, <<"0">> >>, StoreOf[p], None, TRUE)
    \/ \E p \in Procs :
          \/ \E k \in WriterKeys[p] : CallLoadResult(p, StoreOf[p], k, WriterObj[p])
          \/ drop(p, StoreOf[p])
          \/ MkdirStore(p)
          \/ RmTreeStore(p)
          \/ RemkdirStore(p)
          \/ DumpData(p)
          \/ LoadResults(p)
          \/ OpenResults(p)
          \/ \E k \in WriterKeys[p] : BodyPut(p, k, WriterObj[p])
          \/ BodyRaise(p)
          \/ BodyExit(p)
          \/ DumpResults(p)
          \/ LoadResultBody(p)
          \/ LoadResultsBody(p)
          \/ Finish(p)

SpecStores == Init /\ [][NextStores]_vars

\* one process that files results, one at a time or a collection at once, and
\* reads them back
NextPut ==
    \/ CallInitStore(MainProc, "x", FALSE)
    \/ MkdirStore(MainProc)
    \/ \E store_name \in TxnNames, class_name \in Identities, result \in ResultObjs :
          CallLoadResult(MainProc, store_name, class_name, result)
    \/ LoadResultBody(MainProc)
    \/ \E store_name \in TxnNames, results \in Collections :
          CallLoadResults(MainProc, store_name, results)
    \/ LoadResultsBody(MainProc)
    \/ \E store_name \in TxnNames : CallOpenResults(MainProc, store_name, FALSE)
    \/ LoadResults(MainProc)
    \/ OpenResults(MainProc)
    \/ BodyExit(MainProc)
    \/ DumpResults(MainProc)
    \/ Finish(MainProc)

SpecPut == Init /\ [][NextPut]_vars

\* one process whose write transactions may be killed while they dump
NextCrash ==
    \/ CallInitStore(MainProc, "x", FALSE)
    \/ MkdirStore(MainProc)
    \/ \E store_name \in TxnNames, write \in BOOLEAN :
          CallOpenResults(MainProc, store_name, write)
    \/ LoadResults(MainProc)
    \/ OpenResults(MainProc)
    \/ \E k \in Identities, v \in ResultObjs : BodyPut(MainProc, k, v)
    \/ BodyRaise(MainProc)
    \/ BodyExit(MainProc)
    \/ DumpResults(MainProc)
    \/ KilledInDump(MainProc)
    \/ Finish(MainProc)

SpecCrash == Init /\ [][NextCrash]_vars

\* several processes in write transactions on one store
NextWriters ==
    \E p \in Procs :
        \/ CallInitStore(p, "x", FALSE)
        \/ MkdirStore(p)
        \/ \E store_name \in TxnNames : CallOpenResults(p, store_name, TRUE)
        \/ LoadResults(p)
        \/ OpenResults(p)
        \/ \E k \in WriterKeys[p] : BodyPut(p, k, WriterObj[p])
        \/ BodyRaise(p)
        \/ BodyExit(p)
        \/ DumpResults(p)
        \/ Finish(p)

SpecWriters == Init /\ [][NextWriters]_vars

\* one process that builds a MultiTestResult and reads its properties
NextResult ==
    \/ \E feature \in Features, result \in TestResults :
          SetSubResult(MainProc, feature, result)
    \/ \E view \in Views : Access(MainProc, view)

SpecResult == Init /\ [][NextResult]_vars

-----------------------------------------------------------------------------
\* Properties

store_path(name) == PathJoin(data_dir, name)

\* the results artifact of a store in filesystem f, or its absence
Artifact(f, name) ==
    IF exists(f, results_path(name)) THEN f[results_path(name)] ELSE [kind |-> "absent", data |-> <<>>]

LogKeys(log) == {log[i][1] : i \in 1..Len(log)}
LastPut(log, k) ==
    LET i == CHOOSE j \in 1..Len(log) :
                 log[j][1] = k /\ \A m \in (j + 1)..Len(log) : log[m][1] # k
    IN log[i][2]

\* the filesystem outside the tree of one store is the same in f and g
SameOutside(f, g, name) ==
    /\ DOMAIN f \ Tree(f, store_path(name)) = DOMAIN g \ Tree(g, store_path(name))
    /\ \A c \in DOMAIN f \ Tree(f, store_path(name)) : f[c] = g[c]

\* the store holds both artifacts and content nested two levels down
RichStore(f, name) ==
    /\ exists(f, results_path(name))
    /\ exists(f, Append(store_path(name), PROFILED_DATA_FNAME))
    /\ \E c \in Tree(f, store_path(name)) : Len(c) >= 3

\* C1: when the block of a write transaction on a store with a non-empty
\* persisted mapping assigns entries and then raises, the results artifact is
\* what it was before the transaction and a read transaction loads the same
\* mapping as before.
C1_FailedWriteKeepsResults ==
    \A p \in Procs :
        (/\ proc[p].op = "open_results" /\ proc[p].write
         /\ proc[p].pc = "done" /\ proc[p].outcome = "BodyError"
         /\ proc[p].log # <<>>
         /\ LoadedResults(proc[p].pre, proc[p].store_name).obj # <<>>)
        => /\ Artifact(fs, proc[p].store_name) = Artifact(proc[p].pre, proc[p].store_name)
           /\ LoadedResults(fs, proc[p].store_name)
                 = LoadedResults(proc[p].pre, proc[p].store_name)

\* C2: when the block of a write transaction exits normally, the results
\* artifact holds the mapping as the block left it: an identity the block
\* assigned maps to the last object assigned to it, every other identity is as
\* it was persisted before, and that is what a read transaction loads next.
C2_CommitOnSuccess ==
    \A p \in Procs :
        (/\ proc[p].op = "open_results" /\ proc[p].write
         /\ proc[p].pc = "done" /\ proc[p].outcome = "ok")
        => LET before == LoadedResults(proc[p].pre, proc[p].store_name).obj
               after == LoadedResults(fs, proc[p].store_name)
           IN /\ is_file(fs, results_path(proc[p].store_name))
              /\ after.exc = "none"
              /\ after.obj = proc[p].results
              /\ \A k \in Identities :
                    IF k \in LogKeys(proc[p].log)
                    THEN /\ k \in Keys(after.obj)
                         /\ Lookup(after.obj, k) = LastPut(proc[p].log, k)
                    ELSE /\ k \in Keys(after.obj) <=> k \in Keys(before)
                         /\ k \in Keys(before) => Lookup(after.obj, k) = Lookup(before, k)

\* a commit that kept an old entry, replaced none of it, and added another
C2_Witness ==
    \E p \in Procs :
        /\ proc[p].op = "open_results" /\ proc[p].write
        /\ proc[p].pc = "done" /\ proc[p].outcome = "ok"
        /\ Keys(LoadedResults(proc[p].pre, proc[p].store_name).obj)
              \ LogKeys(proc[p].log) # {}
        /\ LogKeys(proc[p].log) # {}
        /\ Len(LoadedResults(fs, proc[p].store_name).obj) = 2

\* C3: a read-only transaction on an existing store without a results artifact
\* yields an empty mapping to the block and raises nothing of its own.
C3_ReadWithoutArtifactYieldsEmpty ==
    \A p \in Procs :
        (/\ proc[p].op = "open_results" /\ ~proc[p].write /\ proc[p].pc = "done"
         /\ is_dir(proc[p].pre, store_path(proc[p].store_name))
         /\ ~exists(proc[p].pre, results_path(proc[p].store_name)))
        => /\ proc[p].outcome \in {"ok", "BodyError"}
           /\ proc[p].yielded = <<>>

\* C4: from its first step to its end, however the block ends and whatever it
\* assigns, a read-only transaction leaves the whole filesystem as it found it.
C4_ReadOnlyChangesNothing ==
    \A p \in Procs :
        (proc[p].op = "open_results" /\ ~proc[p].write) => fs = proc[p].pre

\* a read-only transaction on a non-empty artifact whose block assigned an
\* entry and raised
C4_Witness ==
    \E p \in Procs :
        /\ proc[p].op = "open_results" /\ ~proc[p].write
        /\ proc[p].pc = "done" /\ proc[p].outcome = "BodyError"
        /\ proc[p].log # <<>>
        /\ proc[p].yielded # <<>>

\* C5: init_store with a name whose directory exists and overwrite false ends
\* in StoreExistsError and leaves the filesystem as it was.
C5_ExistingStoreRefused ==
    \A p \in Procs :
        (/\ proc[p].op = "init_store" /\ proc[p].name # None /\ ~proc[p].overwrite
         /\ proc[p].pc = "done"
         /\ is_dir(proc[p].pre, store_path(proc[p].store_name)))
        => /\ proc[p].outcome = "StoreExistsError"
           /\ fs = proc[p].pre

\* the refused call found a store with both artifacts and nested content
C5_Witness ==
    \E p \in Procs :
        /\ proc[p].op = "init_store" /\ proc[p].name # None /\ ~proc[p].overwrite
        /\ proc[p].pc = "done" /\ proc[p].outcome = "StoreExistsError"
        /\ RichStore(proc[p].pre, proc[p].store_name)

\* C6: init_store with a name whose directory exists and overwrite true
\* succeeds and leaves that directory existing and empty.
C6_OverwriteLeavesEmptyStore ==
    \A p \in Procs :
        (/\ proc[p].op = "init_store" /\ proc[p].name # None /\ proc[p].overwrite
         /\ proc[p].pc = "done"
         /\ is_dir(proc[p].pre, store_path(proc[p].store_name)))
        => /\ proc[p].outcome = "ok"
           /\ is_dir(fs, store_path(proc[p].store_name))
           /\ Tree(fs, store_path(proc[p].store_name)) = {store_path(proc[p].store_name)}

\* the overwritten store held both artifacts and nested content
C6_Witness ==
    \E p \in Procs :
        /\ proc[p].op = "init_store" /\ proc[p].name # None /\ proc[p].overwrite
        /\ proc[p].pc = "done" /\ proc[p].outcome = "ok"
        /\ RichStore(proc[p].pre, proc[p].store_name)

\* C7: a call of init_store without a name never finds its candidate's
\* directory existing when it creates it (so never removes a live store), and
\* two such calls that have both returned did not return the same name.
C7_SynthesizedNamesUnique ==
    /\ \A p \in Procs :
          (proc[p].op = "init_store" /\ proc[p].name = None)
          => proc[p].pc \notin {"rm_tree", "remkdir"}
    /\ \A p, q \in Procs :
          (/\ p # q
           /\ proc[p].op = "init_store" /\ proc[p].name = None
           /\ proc[q].op = "init_store" /\ proc[q].name = None
           /\ proc[p].pc = "done" /\ proc[p].outcome = "ok"
           /\ proc[q].pc = "done" /\ proc[q].outcome = "ok")
          => proc[p].store_name # proc[q].store_name

AllCollided(p) ==
    /\ Len(proc[p].tried) = UNIQUE_STORENAME_ATTEMPTS
    /\ \A i \in 1..Len(proc[p].tried) : proc[p].tried[i][2]

\* C8: init_store without a name tries at most 3 candidates; once all 3 have
\* collided it creates nothing and ends in NameConflictError, and no step of
\* its name synthesis changes the filesystem.
C8_BoundedRetry ==
    /\ [](\A p \in Procs :
            (proc[p].op = "init_store" /\ proc[p].name = None)
            => /\ Len(proc[p].tried) <= UNIQUE_STORENAME_ATTEMPTS
               /\ AllCollided(p) => proc[p].pc \in {"sleep", "attempt", "done"}
               /\ (AllCollided(p) /\ proc[p].pc = "done")
                     => proc[p].outcome = "NameConflictError")
    /\ [][\A p \in Procs :
            (proc[p].pc \in {"sleep", "attempt"} /\ proc'[p] # proc[p]) => fs' = fs]_vars

\* a call that collided three times and ended in NameConflictError
C8_Witness ==
    \E p \in Procs :
        /\ proc[p].op = "init_store" /\ proc[p].name = None
        /\ proc[p].pc = "done" /\ proc[p].outcome = "NameConflictError"
        /\ AllCollided(p)

\* C9: drop of an existing store removes its whole tree: nothing is left at or
\* below its path, ls_stores no longer yields its name, and everything outside
\* that tree is as it was.
C9_DropRemovesTree ==
    \A p \in Procs :
        (/\ proc[p].op = "drop" /\ proc[p].pc = "done"
         /\ proc[p].store_name # ""
         /\ is_dir(proc[p].pre, store_path(proc[p].store_name)))
        => /\ proc[p].outcome = "ok"
           /\ Tree(fs, store_path(proc[p].store_name)) = {}
           /\ proc[p].store_name \notin Range(ls_stores(fs).yields)
           /\ SameOutside(fs, proc[p].pre, proc[p].store_name)

\* the dropped store held files, a subdirectory with a file and a
\* subdirectory in it, and another store existed
C9_Witness ==
    \E p \in Procs :
        /\ proc[p].op = "drop" /\ proc[p].pc = "done" /\ proc[p].outcome = "ok"
        /\ proc[p].store_name = "x"
        /\ RichStore(proc[p].pre, "x")
        /\ is_dir(proc[p].pre, <<"x", SubdirName, SubdirName>>)
        /\ is_file(proc[p].pre, <<"x", SubdirName, OtherFileName>>)
        /\ is_file(proc[p].pre, <<"y", PROFILED_DATA_FNAME>>)
        /\ is_file(fs, <<"y", PROFILED_DATA_FNAME>>)

\* C10: ls_stores run while the storage root does not exist yields nothing and
\* ends normally.
C10_ListWithoutRootYieldsNothing ==
    \A p \in Procs :
        (/\ proc[p].op = "ls_stores" /\ proc[p].pc = "done"
         /\ ~exists(proc[p].pre, data_dir))
        => /\ proc[p].outcome = "none"
           /\ proc[p].ret = <<>>

data_path(name) == Append(store_path(name), PROFILED_DATA_FNAME)

\* C11: get_data ends in StoreNotFoundError exactly when the store directory
\* does not exist, in DataNotFoundError exactly when the directory exists and
\* holds no sequence artifact, and otherwise returns the stored series.
C11_GetDataErrors ==
    \A p \in Procs :
        (proc[p].op = "get_data" /\ proc[p].pc = "done")
        => /\ proc[p].outcome = "StoreNotFoundError"
                 <=> ~is_dir(proc[p].pre, store_path(proc[p].store_name))
           /\ proc[p].outcome = "DataNotFoundError"
                 <=> /\ is_dir(proc[p].pre, store_path(proc[p].store_name))
                     /\ ~exists(proc[p].pre, data_path(proc[p].store_name))
           /\ proc[p].outcome \in {"StoreNotFoundError", "DataNotFoundError", "ok"}
           /\ proc[p].outcome = "ok"
                 => /\ fs[data_path(proc[p].store_name)].data
                          = <<"SERIES">> \o proc[p].ret \o <<".">>
                    /\ Len(proc[p].ret) > 1

\* get_data on a store that exists, holds results, and holds no sequence
C11_Witness ==
    \E p \in Procs :
        /\ proc[p].op = "get_data" /\ proc[p].pc = "done"
        /\ proc[p].outcome = "DataNotFoundError"
        /\ exists(fs, results_path(proc[p].store_name))

\* C12: a property read after the mapping was assigned to, when a property had
\* been read before that assignment, returns what the mapping now holds.
C12_ViewsTrackMutation ==
    \A p \in Procs :
        (proc[p].got.view # "none" /\ proc[p].got.after_mutation)
        => /\ proc[p].got.exc = "none"
           /\ proc[p].got.value = Compute(proc[p].got.view, proc[p].mtr)

\* C13: min of a non-empty MultiTestResult is an entry whose p no entry
\* undercuts and which no earlier entry equals in p.
C13_MinSelection ==
    \A p \in Procs :
        (proc[p].got.view = "min" /\ proc[p].mtr # <<>>)
        => /\ proc[p].got.exc = "none"
           /\ \E i \in 1..Len(proc[p].mtr) :
                 /\ proc[p].got.value = proc[p].mtr[i]
                 /\ \A j \in 1..Len(proc[p].mtr) :
                       proc[p].mtr[j][2].p >= proc[p].mtr[i][2].p
                 /\ \A j \in 1..(i - 1) :
                       proc[p].mtr[j][2].p > proc[p].mtr[i][2].p

\* C14: after load_result has returned, the store's results mapping maps the
\* class name of the result to the result, and holds every entry it held under
\* another name, unchanged, and nothing else.
C14_LoadResultLastWriteWins ==
    \A p \in Procs :
        (proc[p].pc = "done" /\ proc[p].op = "load_result" /\ proc[p].outcome = "ok")
        => LET old == LoadedResults(proc[p].pre, proc[p].store_name).obj
               new == LoadedResults(fs, proc[p].store_name)
               class_name == proc[p].args[1]
           IN /\ new.exc = "none"
              /\ Keys(new.obj) = Keys(old) \cup {class_name}
              /\ Lookup(new.obj, class_name) = proc[p].args[2]
              /\ \A k \in Keys(old) \ {class_name} : Lookup(new.obj, k) = Lookup(old, k)

C14_Witness ==
    \E p \in Procs :
        /\ proc[p].pc = "done" /\ proc[p].op = "load_result" /\ proc[p].outcome = "ok"
        /\ LET old == LoadedResults(proc[p].pre, proc[p].store_name).obj
           IN /\ proc[p].args[1] \in Keys(old)
              /\ Lookup(old, proc[p].args[1]) # proc[p].args[2]
              /\ Keys(old) \ {proc[p].args[1]} # {}

\* the sequence a store holds in the filesystem f, as get_data returns it
Held(f, store_name) == GetData(f, store_name)

\* C15 as claimed: load_data of a one-column table into a store that holds a
\* sequence succeeds, whatever the overwrite flag, and get_data then returns the
\* new sequence.
C15_PutOverwritesUnconditionally ==
    \A p \in Procs :
        (/\ proc[p].pc = "done" /\ proc[p].op = "load_data"
         /\ parse_data(proc[p].df, proc[p].dtypestr).exc = "none"
         /\ parse_data(proc[p].df, proc[p].dtypestr).ncols = 1
         /\ Held(proc[p].pre, slugify(proc[p].name)).exc = "ok")
        => /\ proc[p].outcome = "ok"
           /\ Held(fs, proc[p].store_name).exc = "ok"
           /\ Held(fs, proc[p].store_name).ret = <<proc[p].store_name>> \o proc[p].series

\* C15 amended: such a call succeeds exactly when overwrite is true, and
\* get_data then returns the new sequence; with overwrite false it ends in
\* StoreExistsError and the filesystem, the sequence held included, is as before.
C15_PutOverwritesOnFlag ==
    \A p \in Procs :
        (/\ proc[p].pc = "done" /\ proc[p].op = "load_data"
         /\ parse_data(proc[p].df, proc[p].dtypestr).exc = "none"
         /\ parse_data(proc[p].df, proc[p].dtypestr).ncols = 1
         /\ Held(proc[p].pre, slugify(proc[p].name)).exc = "ok")
        => IF proc[p].overwrite
           THEN /\ proc[p].outcome = "ok"
                /\ Held(fs, proc[p].store_name).exc = "ok"
                /\ Held(fs, proc[p].store_name).ret = <<proc[p].store_name>> \o proc[p].series
           ELSE /\ proc[p].outcome = "StoreExistsError"
                /\ fs = proc[p].pre

\* a refused put over a store holding another sequence
C15_Witness ==
    \E p \in Procs :
        /\ proc[p].pc = "done" /\ proc[p].op = "load_data"
        /\ ~proc[p].overwrite /\ proc[p].outcome = "StoreExistsError"
        /\ Held(proc[p].pre, proc[p].store_name).exc = "ok"
        /\ Held(proc[p].pre, proc[p].store_name).ret # <<proc[p].store_name>> \o proc[p].series

\* C16: load_data of a table with more than one column ends in
\* MultipleColumnsError and leaves the filesystem as it was: no store directory
\* made, none removed or emptied, no artifact written.
C16_MultipleColumnsRejectedFirst ==
    \A p \in Procs :
        (/\ proc[p].pc \in {"mkdir", "rm_tree", "remkdir", "dump", "done"}
         /\ proc[p].op = "load_data"
         /\ parse_data(proc[p].df, proc[p].dtypestr).ncols > 1)
        => /\ proc[p].pc = "done"
           /\ proc[p].outcome = "MultipleColumnsError"
           /\ fs = proc[p].pre

\* the rejected call named, with overwrite true, a store with both artifacts
\* and nested content
C16_Witness ==
    \E p \in Procs :
        /\ proc[p].pc = "done" /\ proc[p].op = "load_data"
        /\ proc[p].outcome = "MultipleColumnsError" /\ proc[p].overwrite
        /\ RichStore(fs, slugify(proc[p].name))

\* C17: a results transaction, read-only or write, load_result included, on a
\* store whose directory does not exist ends in StoreNotFoundError and leaves
\* the filesystem as it was.
C17_MissingStoreIsStoreNotFound ==
    \A p \in Procs :
        (/\ proc[p].pc = "done" /\ proc[p].op \in {"open_results", "load_result"}
         /\ ~exists(proc[p].pre, store_path(proc[p].store_name)))
        => /\ proc[p].outcome = "StoreNotFoundError"
           /\ fs = proc[p].pre

\* the first column of a table, as the caller wrote it
Column(df) == [i \in 1..Len(df) |-> df[i][1]]

\* C18: after a load_data that succeeded on values of the declared element
\* type (or of the inferred one when none is declared), get_data on the
\* resulting store returns the same values in the same order, labelled with
\* the store's resolved name.
C18_SequenceRoundTrip ==
    \A p \in Procs :
        (/\ proc[p].pc = "done" /\ proc[p].op = "load_data" /\ proc[p].outcome = "ok"
         /\ \A i \in 1..Len(proc[p].df) : InType(proc[p].dtypestr, proc[p].df[i][1]))
        => /\ Held(fs, proc[p].store_name).exc = "ok"
           /\ Held(fs, proc[p].store_name).ret
                 = <<proc[p].store_name>> \o Column(proc[p].df)

\* a typed two-value sequence, put under a name that slugify changes, over a
\* store that held other values
C18_Witness ==
    \E p \in Procs :
        /\ proc[p].pc = "done" /\ proc[p].op = "load_data" /\ proc[p].outcome = "ok"
        /\ proc[p].dtypestr = "byte" /\ Len(proc[p].df) = 2
        /\ \A i \in 1..Len(proc[p].df) : InType(proc[p].dtypestr, proc[p].df[i][1])
        /\ proc[p].store_name # proc[p].name
        /\ Held(proc[p].pre, proc[p].store_name).exc = "ok"
        /\ Held(proc[p].pre, proc[p].store_name).ret # Held(fs, proc[p].store_name).ret

\* the results artifact of the store is a file without a complete pickle
Truncated(f, name) ==
    /\ is_file(f, results_path(name))
    /\ StopAt(f[results_path(name)].data) = 0

\* C19: a transaction, read-only or write, on a store whose results artifact
\* is empty or truncated does not end in an error of the load and yields an
\* empty mapping.
C19_TruncatedArtifactYieldsEmpty ==
    \A p \in Procs :
        (/\ proc[p].op \in {"open_results", "load_result"}
         /\ proc[p].pc \in {"open", "body", "dump", "done"}
         /\ Truncated(proc[p].pre, proc[p].store_name))
        => /\ proc[p].outcome \notin {"EOFError", "UnpicklingError"}
           /\ proc[p].yielded = <<>>
           /\ proc[p].pc = "open" => proc[p].results = <<>>

\* p and q ran write transactions on one store whose blocks both ended
\* normally; p dumped while q had loaded and not yet dumped, and q's dump is
\* the last the store has seen
Overlapped(p, q) ==
    /\ p # q
    /\ proc[p].pc = "done" /\ proc[p].outcome = "ok" /\ proc[p].write
    /\ proc[q].pc = "done" /\ proc[q].outcome = "ok" /\ proc[q].write
    /\ proc[p].store_name = proc[q].store_name
    /\ q \in proc[p].overlap
    /\ proc[q].last

\* C20: after two overlapping write transactions have both ended, the
\* persisted mapping is the mapping of the one that dumped last: what that one
\* loaded with what its block assigned, and nothing of what the other added.
C20_LastWriterWins ==
    \A p, q \in Procs :
        Overlapped(p, q)
        => LET after == LoadedResults(fs, proc[q].store_name)
           IN /\ after.exc = "none"
              /\ after.obj = proc[q].results
              /\ \A k \in Identities :
                    IF k \in LogKeys(proc[q].log)
                    THEN /\ k \in Keys(after.obj)
                         /\ Lookup(after.obj, k) = LastPut(proc[q].log, k)
                    ELSE /\ k \in Keys(after.obj) <=> k \in Keys(proc[q].yielded)
                         /\ k \in Keys(proc[q].yielded)
                               => Lookup(after.obj, k) = Lookup(proc[q].yielded, k)

\* the first to dump filed under an identity the last neither loaded nor
\* filed under, and wrote the longer pickle
C20_Witness ==
    \E p, q \in Procs :
        /\ Overlapped(p, q)
        /\ proc[q].log # <<>>
        /\ LogKeys(proc[p].log) \ (LogKeys(proc[q].log) \cup Keys(proc[q].yielded)) # {}
        /\ Len(proc[p].results) > Len(proc[q].results)
        /\ LogKeys(proc[p].log) \cap Keys(LoadedResults(fs, proc[q].store_name).obj) = {}

\* where a mapping holds an identity, and where a collection first names it
Pos(d, k) == CHOOSE i \in 1..Len(d) : d[i][1] = k
First(log, k) == CHOOSE i \in 1..Len(log) : log[i][1] = k /\ \A j \in 1..(i - 1) : log[j][1] # k

\* C22: after load_results has returned, what a read transaction loads holds
\* every identity of the collection with the last result the collection gives
\* for it, the identities persisted before keep their places and, when the
\* collection does not name them, their results, and the identities that are
\* new follow them in the order the collection first names them; the whole
\* collection went through one transaction.
C22_LoadResultsInOrder ==
    \A p \in Procs :
        (proc[p].pc = "done" /\ proc[p].op = "load_results" /\ proc[p].outcome = "ok")
        => LET old == LoadedResults(proc[p].pre, proc[p].store_name).obj
               new == LoadedResults(fs, proc[p].store_name)
               col == proc[p].log
           IN /\ new.exc = "none"
              /\ proc[p].args = <<>>
              /\ Keys(new.obj) = Keys(old) \cup LogKeys(col)
              /\ Len(new.obj) = Cardinality(Keys(new.obj))
              /\ \A i \in 1..Len(old) : new.obj[i][1] = old[i][1]
              /\ \A k \in Keys(new.obj) :
                    Lookup(new.obj, k) = IF k \in LogKeys(col) THEN LastPut(col, k)
                                         ELSE Lookup(old, k)
              /\ \A a, b \in LogKeys(col) \ Keys(old) :
                    Pos(new.obj, a) < Pos(new.obj, b) <=> First(col, a) < First(col, b)

\* a collection that names one identity twice with different results, filed
\* into a store that held another identity
C22_Witness ==
    \E p \in Procs :
        /\ proc[p].pc = "done" /\ proc[p].op = "load_results" /\ proc[p].outcome = "ok"
        /\ Len(proc[p].log) >= 2
        /\ proc[p].log[1][1] = proc[p].log[2][1]
        /\ proc[p].log[1][2] # proc[p].log[2][2]
        /\ Keys(LoadedResults(proc[p].pre, proc[p].store_name).obj) \ LogKeys(proc[p].log) # {}

\* what a store is to its users: whether it exists, its sequence artifact and
\* the results mapping a transaction loads from it
SeqArtifact(f, name) ==
    IF exists(f, data_path(name)) THEN f[data_path(name)] ELSE [kind |-> "absent", data |-> <<>>]
StoreView(f, name) ==
    [exists |-> exists(f, store_path(name)),
     sequence |-> SeqArtifact(f, name),
     results |-> LoadedResults(f, name)]

\* C21: a step of an operation on one store leaves every other store as it
\* was: its existence, its sequence artifact and its results mapping,
\* whatever the other processes are in the middle of.
C21_StoresIndependent ==
    [][\A q \in Procs :
          proc'[q] # proc[q]
          => \A B \in StoreNames \ {proc[q].store_name, proc'[q].store_name} :
                StoreView(fs', B) = StoreView(fs, B)]_vars

\* one process has dropped its store, which held a sequence and results, while
\* the other, whose store holds both, is inside a write transaction
C21_Witness ==
    \E p, q \in Procs :
        /\ p # q
        /\ proc[p].pc = "done" /\ proc[p].op = "drop" /\ proc[p].outcome = "ok"
        /\ exists(proc[p].pre, data_path(proc[p].store_name))
        /\ Keys(LoadedResults(proc[p].pre, proc[p].store_name).obj) # {}
        /\ ~exists(fs, store_path(proc[p].store_name))
        /\ proc[q].op = "load_result" /\ proc[q].pc = "open"
        /\ proc[q].store_name # proc[p].store_name
        /\ exists(fs, data_path(proc[q].store_name))
        /\ Keys(LoadedResults(fs, proc[q].store_name).obj) # {}

\* C23: one full run of ls_stores yields the name of every directory directly
\* under the storage root once, and nothing else.
C23_ListYieldsEachStoreOnce ==
    \A p \in Procs :
        (proc[p].pc = "done" /\ proc[p].op = "ls_stores" /\ proc[p].outcome = "none")
        => /\ Range(proc[p].ret) = StoreDirs(proc[p].pre)
           /\ Len(proc[p].ret) = Cardinality(StoreDirs(proc[p].pre))

====
